---- MODULE Spec2Model ----
(***************************************************************************)
(* Reelgood streaming-availability scraper: the platform extractor, the    *)
(* region selector, the two scrape orchestrators and the CLI / HTTP        *)
(* delivery adapters of src/reelgood_scraper.py and src/app.py.            *)
(***************************************************************************)
EXTENDS Integers, Sequences, FiniteSets, TLC

\* ------------------------------------------------------------------ bounds
\* Number of service-logo images on a page given to extract_platforms.
MaxLogos == 2
\* Depth of the deepest ancestor chain of a logo image.
MaxDepth == 17

\* ------------------------------------------------ extract_platforms: the DOM
\* The four category labels of the page (JS literal ['Free','Sub','Rent','Buy']).
Labels == {"Free", "Sub", "Rent", "Buy"}

\* for (let i = 0; i < 15; i++): ancestor levels walked.
AncestorLevels == 15
\* for (let i = 0; i < 5 && sibling; i++): levels of the sibling fallback.
SiblingLevels == 5

\* An ancestor element as the extractor sees it: the trimmed text of its first
\* element child, the category keywords its class string contains, and the
\* trimmed text of its previous element sibling ("" when there is none).
Plain == [first |-> "", cls |-> {}, prev |-> ""]

\* The ancestor descriptions the pages are built from.
AttrSet ==
  { [first |-> f, cls |-> {}, prev |-> ""] : f \in {"Sub", "Free", "Rent", "Buy", "Stream"} }
  \cup { [first |-> "", cls |-> c, prev |-> ""] :
           c \in {{"sub"}, {"free", "sub"}, {"rent", "buy"}} }
  \cup { [first |-> "Rent", cls |-> {"sub"}, prev |-> ""] }
  \cup { [first |-> "", cls |-> {}, prev |-> p] : p \in {"Sub", "Free"} }

\* Levels at which a page carries a non-plain ancestor.
MarkLevels == {1, 5, 6, 15, 16}
Marks == [level : MarkLevels, attr : AttrSet]
NoMark == [level |-> 0, attr |-> Plain]

\* Ancestor chains, nearest ancestor first: plain but for up to two marks.
Chain(depth, m1, m2) ==
  [l \in 1..depth |->
     IF m1.level = l THEN m1.attr
     ELSE IF m2.level = l THEN m2.attr
     ELSE Plain]

Depths == {3, MaxDepth}
Alts == {"", "Hulu", "Netflix"}

\* The <img src*="service-logos"> elements a page can hold.
LogoSet ==
  { [alt |-> a, anc |-> Chain(d, m1, m2)] :
      a \in Alts, d \in Depths,
      m1 \in Marks \cup {NoMark}, m2 \in Marks \cup {NoMark} }

NoImg == [alt |-> "", anc |-> << >>]

\* Platform names in ascending lexicographic (code point) order, as Python's
\* sorted() orders them.
NamesAsc == <<"Hulu", "Netflix", "Tubi">>
Rank(n) == CHOOSE i \in 1..Len(NamesAsc) : NamesAsc[i] = n

VARIABLES
  pc,              \* position of the running code
  img,             \* extract_platforms: the logo image of the current JS iteration
  category,        \* extract_platforms: the JS local of the current iteration
  platforms_data,  \* extract_platforms: the list the page script returns
  platforms,       \* the {'subscription', 'free'} value extract_platforms returned
  callee,          \* the orchestrator the delivery adapter called, or "none"
  url,             \* the orchestrator's url parameter
  region,          \* scrape_reelgood's region parameter ("None" when not given)
  browser,         \* the Chromium session of the call: "none", "open", "closed"
  page,            \* the loaded page as the scraper's queries see it
  sel,             \* the running select_region call: target, current, result
  title,           \* the orchestrator's local title
  detected_region, \* scrape_reelgood's local detected_region
  results,         \* scrape_all_regions' dict results
  todo,            \* region codes the for loop of scrape_all_regions has left
  ret,             \* how the orchestrator call ended: value returned or exception
  exc,             \* the exception caught by the orchestrator's except clause
  log,             \* history: the page operations of the call, in order
  warned,          \* history: the challenge warning was printed
  argv_facts,      \* history: what the claims ask about the CLI's argument list
  exit_code,       \* the CLI process's exit code, -1 while it runs
  request,         \* the JSON body of the POST /scrape request being served
  response         \* the HTTP response, status 0 while there is none

xvars == <<img, category, platforms_data>>
ovars == <<callee, url, region, browser, page, sel, title, detected_region,
           results, todo, ret, exc, log, warned>>
dvars == <<argv_facts, exit_code, request, response>>
vars == <<pc, img, category, platforms_data, platforms, callee, url, region,
          browser, page, sel, title, detected_region, results, todo, ret, exc,
          log, warned, argv_facts, exit_code, request, response>>

\* ------------------------------------------- extract_platforms: the page script
\* className.includes('free') ... else if 'sub' ... 'rent' ... 'buy'.
ClassCategory(cls) ==
  IF "free" \in cls THEN "Free"
  ELSE IF "sub" \in cls THEN "Sub"
  ELSE IF "rent" \in cls THEN "Rent"
  ELSE IF "buy" \in cls THEN "Buy"
  ELSE ""

\* Mutant: the class keywords looked at before the first child's text.
RECURSIVE WalkUpClassFirst(_, _)
WalkUpClassFirst(anc, i) ==
  IF i >= AncestorLevels \/ i + 1 > Len(anc) THEN ""
  ELSE LET el == anc[i + 1] IN
       IF ClassCategory(el.cls) # "" THEN ClassCategory(el.cls)
       ELSE IF el.first \in Labels THEN el.first
       ELSE WalkUpClassFirst(anc, i + 1)

\* The ancestor loop: el = el.parentElement, i = 0..14, break on the first
\* category; "" when the loop ends without one.
RECURSIVE WalkUp(_, _)
WalkUp(anc, i) ==
  IF i >= AncestorLevels \/ i + 1 > Len(anc) THEN ""
  ELSE LET el == anc[i + 1] IN
       IF el.first \in Labels THEN el.first
       ELSE IF ClassCategory(el.cls) # "" THEN ClassCategory(el.cls)
       ELSE WalkUp(anc, i + 1)

\* The fallback loop over previous siblings of img.parentElement and upwards.
RECURSIVE SiblingScan(_, _)
SiblingScan(anc, i) ==
  IF i >= SiblingLevels \/ i + 1 > Len(anc) THEN ""
  ELSE IF anc[i + 1].prev \in Labels THEN anc[i + 1].prev
  ELSE SiblingScan(anc, i + 1)

\* The category the page script pushes for one named image.
Category(logo) ==
  LET c == WalkUp(logo.anc, 0)
      d == IF c # "" THEN c ELSE SiblingScan(logo.anc, 0)
  IN IF d # "" THEN d ELSE "Unknown"

\* The whole page script over a list of images (document order).
RECURSIVE ScanLogos(_)
ScanLogos(imgs) ==
  IF imgs = << >> THEN << >>
  ELSE LET rest == ScanLogos(Tail(imgs)) IN
       IF Head(imgs).alt = "" THEN rest
       ELSE <<[platform |-> Head(imgs).alt, category |-> Category(Head(imgs))]>> \o rest

\* ------------------------------------- extract_platforms: the Python separation
\* sorted(list(s)) for a set of platform names.
RECURSIVE Sorted(_)
Sorted(s) ==
  IF s = {} THEN << >>
  ELSE LET m == CHOOSE x \in s : \A y \in s : Rank(x) <= Rank(y)
       IN <<m>> \o Sorted(s \ {m})

NamesWith(data, cat) ==
  { data[i].platform : i \in { j \in 1..Len(data) : data[j].category = cat } }

\* Mutant: lists appended to in document order instead of sets sorted.
RECURSIVE Filtered(_, _)
Filtered(data, cat) ==
  IF data = << >> THEN << >>
  ELSE IF Head(data).category = cat
       THEN <<Head(data).platform>> \o Filtered(Tail(data), cat)
       ELSE Filtered(Tail(data), cat)
SeparateAsLists(data) ==
  [subscription |-> Filtered(data, "Sub"), free |-> Filtered(data, "Free")]

Separate(data) ==
  [subscription |-> Sorted(NamesWith(data, "Sub")),
   free |-> Sorted(NamesWith(data, "Free"))]

extract_platforms(imgs) == Separate(ScanLogos(imgs))

NoPlatforms == [subscription |-> <<"-">>, free |-> <<"-">>]

\* ------------------------------------------------------- regions and pages
\* REGIONS, in the dict's insertion order.
RegionOrder == <<"all", "us", "uk", "ca", "au", "nz">>
REGIONS ==
  [all |-> "All Regions", us |-> "United States", uk |-> "United Kingdom",
   ca |-> "Canada", au |-> "Australia", nz |-> "New Zealand"]
RegionKeys == DOMAIN REGIONS

\* Mutant: the comprehension without its filter.
AllRegionCodes == RegionOrder

\* regions_to_scrape = {k: v for k, v in REGIONS.items() if k != 'all'}
RegionsToScrape == SelectSeq(RegionOrder, LAMBDA k : k # "all")

\* The literal list of get_current_region.
KnownNames == {"Canada", "United States", "United Kingdom", "Australia",
               "New Zealand", "All Regions"}

\* A logo image directly under a section whose first child is the label.
SectionLogo(name, label) ==
  [alt |-> name,
   anc |-> Chain(3, [level |-> 1, attr |-> [first |-> label, cls |-> {}, prev |-> ""]], NoMark)]

\* The logos the site shows for a region (the content behind each region).
Catalog(name) ==
  CASE name = "United States" -> <<SectionLogo("Netflix", "Sub"), SectionLogo("Hulu", "Sub")>>
    [] name = "United Kingdom" -> <<SectionLogo("Netflix", "Sub"), SectionLogo("Hulu", "Rent")>>
    [] name = "Canada" -> <<SectionLogo("Tubi", "Free"), SectionLogo("Netflix", "Sub")>>
    [] name = "Australia" -> <<SectionLogo("Tubi", "Free")>>
    [] name = "All Regions" -> <<SectionLogo("Hulu", "Sub"), SectionLogo("Tubi", "Free"),
                                 SectionLogo("Netflix", "Sub")>>
    [] OTHER -> << >>

\* The page: dropdown = the region dropdown div exists; span = the trimmed text
\* of the span inside it ("" when there is none); line = the first line of the
\* dropdown's text; menu = the dropdown is open; h1 = the heading's text ("" when
\* there is no h1); doc_title = document.title; logos = the service-logo images.
NoPage ==
  [dropdown |-> FALSE, span |-> "", line |-> "", menu |-> FALSE, h1 |-> "",
   doc_title |-> "", logos |-> << >>]

\* The region widgets a freshly loaded page can show.
Widgets ==
  { [dropdown |-> FALSE, span |-> "", line |-> ""] }
  \cup { [dropdown |-> TRUE, span |-> r, line |-> r] : r \in {"United States", "Canada"} }
  \cup { [dropdown |-> TRUE, span |-> "", line |-> "Canada"],
         [dropdown |-> TRUE, span |-> "Region", line |-> "Region"] }

DocTitles == {"Inception | Reelgood", "", "Just a moment..."}

\* The pages page.goto can end on.
LoadedPages ==
  { [dropdown |-> w.dropdown, span |-> w.span, line |-> w.line, menu |-> FALSE,
     h1 |-> "Inception", doc_title |-> t, logos |-> Catalog(w.line)] :
      w \in Widgets, t \in DocTitles }
  \cup { [NoPage EXCEPT !.doc_title = "Just a moment..."] }

\* The page after the site switched to the region named target.
RegionChanged(p, target) ==
  [p EXCEPT !.span = IF p.span = "" THEN "" ELSE target,
            !.line = target, !.menu = FALSE, !.logos = Catalog(target)]

\* get_current_region(page); raises = a page query inside its try block threw.
get_current_region(p, raises) ==
  IF raises THEN "Unknown"
  ELSE IF p.dropdown /\ p.span # "" /\ p.span \in KnownNames THEN p.span
  ELSE IF p.dropdown THEN p.line
  ELSE "Unknown"

\* ----------------------------------------------------------------- defaults
NoSel == [target |-> "", current |-> "", ret |-> "", via |-> "", esc |-> FALSE,
          before |-> NoPage]
NoRet == [kind |-> "none"]
NoFacts == [help |-> FALSE, bad_any |-> FALSE, bad_first |-> FALSE]
NoRequest == [kind |-> "none"]
NoResponse == [status |-> 0]

InitLocals ==
  /\ img = NoImg
  /\ category = ""
  /\ platforms_data = << >>
  /\ platforms = NoPlatforms
  /\ callee = "none"
  /\ url = << >>
  /\ region = "None"
  /\ browser = "none"
  /\ page = NoPage
  /\ sel = NoSel
  /\ title = ""
  /\ detected_region = ""
  /\ results = << >>
  /\ todo = << >>
  /\ ret = NoRet
  /\ exc = ""
  /\ log = << >>
  /\ warned = FALSE
  /\ argv_facts = NoFacts
  /\ exit_code = -1
  /\ request = NoRequest
  /\ response = NoResponse

\* ---------------------------------------------- extract_platforms step by step
\* logo_count = page.evaluate(...): the extraction starts.
EvalLogoCount ==
  /\ pc = "x_idle"
  /\ pc' = "x_loop"
  /\ img' = NoImg
  /\ category' = ""
  /\ platforms_data' = << >>
  /\ platforms' = NoPlatforms
  /\ UNCHANGED <<ovars, dvars>>

\* for (const img of imgs): the next logo image of the page.
ForImg ==
  /\ pc = "x_loop"
  /\ Len(platforms_data) < MaxLogos
  /\ \E logo \in LogoSet :
       /\ img' = logo
       /\ pc' = "x_img"
  /\ category' = ""
  /\ UNCHANGED <<platforms_data, platforms, ovars, dvars>>

\* if (!platform) continue;
SkipUnnamed ==
  /\ pc = "x_img"
  /\ img.alt = ""
  /\ img' = NoImg
  /\ pc' = "x_loop"
  /\ UNCHANGED <<category, platforms_data, platforms, ovars, dvars>>

\* The ancestor walk and the sibling fallback of one iteration.
FindCategory ==
  /\ pc = "x_img"
  /\ img.alt # ""
  /\ category' = Category(img)
  /\ pc' = "x_push"
  /\ UNCHANGED <<img, platforms_data, platforms, ovars, dvars>>

\* results.push({platform, category: category || 'Unknown'})
PushResult ==
  /\ pc = "x_push"
  /\ platforms_data' = Append(platforms_data, [platform |-> img.alt, category |-> category])
  /\ img' = NoImg
  /\ category' = ""
  /\ pc' = "x_loop"
  /\ UNCHANGED <<platforms, ovars, dvars>>

\* return results; then the Python loop and the two sorted lists.
SeparatePlatforms ==
  /\ pc = "x_loop"
  /\ platforms' = Separate(platforms_data)
  /\ pc' = "x_done"
  /\ UNCHANGED <<img, category, platforms_data, ovars, dvars>>

InitExtract ==
  /\ pc = "x_idle"
  /\ InitLocals

NextExtract ==
  \/ EvalLogoCount
  \/ ForImg
  \/ SkipUnnamed
  \/ FindCategory
  \/ PushResult
  \/ SeparatePlatforms

SpecExtract == InitExtract /\ [][NextExtract]_vars

\* ------------------------------------------------------------ select_region
\* What a select_region step leaves alone.
sel_rest == <<xvars, platforms, callee, url, region, browser, title,
              detected_region, results, todo, ret, exc, log, warned, dvars>>

\* The frame of a call select_region(page, target) on page p.
SelectCall(target, p) ==
  [NoSel EXCEPT !.target = target, !.before = [p EXCEPT !.menu = FALSE]]

\* current = get_current_region(page); if current == target_region: return.
SelCurrent ==
  /\ pc = "s_current"
  /\ \E raises \in BOOLEAN :
       LET current == get_current_region(page, raises) IN
       IF current = sel.target
       THEN /\ sel' = [sel EXCEPT !.current = current, !.ret = sel.target, !.via = "already"]
            /\ pc' = "s_return"
       ELSE /\ sel' = [sel EXCEPT !.current = current]
            /\ pc' = "s_dropdown"
  /\ UNCHANGED <<page, sel_rest>>

\* dropdown = page.query_selector(...); if not dropdown: return current.
SelDropdown ==
  /\ pc = "s_dropdown"
  /\ \E outcome \in {"ok", "raise"} :
       IF outcome = "raise" THEN pc' = "s_except" /\ sel' = sel
       ELSE IF ~page.dropdown
       THEN /\ sel' = [sel EXCEPT !.ret = sel.current, !.via = "no_dropdown"]
            /\ pc' = "s_return"
       ELSE pc' = "s_click" /\ sel' = sel
  /\ UNCHANGED <<page, sel_rest>>

\* dropdown.click()
SelClick ==
  /\ pc = "s_click"
  /\ \E outcome \in {"ok", "raise"} :
       IF outcome = "raise" THEN pc' = "s_except" /\ page' = page
       ELSE pc' = "s_wait_open" /\ page' = [page EXCEPT !.menu = TRUE]
  /\ UNCHANGED <<sel, sel_rest>>

\* page.wait_for_timeout(500)
SelWaitOpen ==
  /\ pc = "s_wait_open"
  /\ \E outcome \in {"ok", "raise"} :
       pc' = IF outcome = "raise" THEN "s_except" ELSE "s_search"
  /\ UNCHANGED <<page, sel, sel_rest>>

\* menu_item = page.evaluate(...): a visible element whose own text is the
\* target name, or null.
SelSearch ==
  /\ pc = "s_search"
  /\ \E outcome \in {"found", "null", "raise"} :
       pc' = CASE outcome = "raise" -> "s_except"
               [] outcome = "found" -> "s_mouse"
               [] outcome = "null" -> "s_escape"
  /\ UNCHANGED <<page, sel, sel_rest>>

\* page.mouse.click(x, y): the click lands on the option and the site switches
\* region, or it lands on an element that is no option (or the site has not
\* reacted) and nothing changes.
SelMouse ==
  /\ pc = "s_mouse"
  /\ \E outcome \in {"landed", "missed", "raise"} :
       /\ pc' = IF outcome = "raise" THEN "s_except" ELSE "s_wait_update"
       /\ page' = IF outcome = "landed" THEN RegionChanged(page, sel.target) ELSE page
  /\ UNCHANGED <<sel, sel_rest>>

\* page.wait_for_timeout(1200); return target_region
SelWaitUpdate ==
  /\ pc = "s_wait_update"
  /\ \E outcome \in {"ok", "raise"} :
       IF outcome = "raise" THEN pc' = "s_except" /\ sel' = sel
       ELSE /\ sel' = [sel EXCEPT !.ret = sel.target, !.via = "clicked"]
            /\ pc' = "s_return"
  /\ UNCHANGED <<page, sel_rest>>

\* page.keyboard.press('Escape'); return current
SelEscape ==
  /\ pc = "s_escape"
  /\ \E outcome \in {"ok", "raise"} :
       IF outcome = "raise" THEN pc' = "s_except" /\ sel' = sel /\ page' = page
       ELSE /\ page' = [page EXCEPT !.menu = FALSE]
            /\ sel' = [sel EXCEPT !.ret = sel.current, !.via = "not_found", !.esc = TRUE]
            /\ pc' = "s_return"
  /\ UNCHANGED sel_rest

\* Mutant: the handler's Escape press without its own try block.
SelExceptUnguarded ==
  /\ pc = "s_except"
  /\ \E esc_ok \in BOOLEAN, raises \in BOOLEAN :
       IF esc_ok
       THEN /\ page' = [page EXCEPT !.menu = FALSE]
            /\ sel' = [sel EXCEPT !.ret = get_current_region(page, raises),
                                  !.via = "exception", !.esc = TRUE]
            /\ pc' = "s_return"
            /\ exc' = exc
       ELSE /\ page' = page
            /\ sel' = [sel EXCEPT !.via = "raised", !.esc = TRUE]
            /\ pc' = "o_except"
            /\ exc' = "select_region"
  /\ UNCHANGED <<xvars, platforms, callee, url, region, browser, title,
                 detected_region, results, todo, ret, log, warned, dvars>>

\* except Exception: try Escape (its failure passed over), print the warning,
\* return get_current_region(page).
SelExcept ==
  /\ pc = "s_except"
  /\ \E esc_ok \in BOOLEAN, raises \in BOOLEAN :
       LET after == IF esc_ok THEN [page EXCEPT !.menu = FALSE] ELSE page IN
       /\ page' = after
       /\ sel' = [sel EXCEPT !.ret = get_current_region(after, raises),
                             !.via = "exception", !.esc = TRUE]
       /\ pc' = "s_return"
  /\ UNCHANGED sel_rest

\* Back in the caller, which drops the returned value; sel stays as the record
\* of the finished call until the next call replaces it.
SelDone ==
  /\ pc = "s_return"
  /\ pc' = IF callee = "scrape_reelgood" THEN "o_detect" ELSE "o_extract"
  /\ UNCHANGED <<page, sel, sel_rest>>

SelectRegion ==
  \/ SelCurrent
  \/ SelDropdown
  \/ SelClick
  \/ SelWaitOpen
  \/ SelSearch
  \/ SelMouse
  \/ SelWaitUpdate
  \/ SelEscape
  \/ SelExcept
  \/ SelDone

\* ----------------------------------- scrape_reelgood and scrape_all_regions
call_args == <<callee, url, region>>

Raised(step) == [kind |-> "raised", detail |-> step]
ErrorResult(detail) ==
  [kind |-> "error", error |-> [prefix |-> "Failed to scrape URL: ", detail |-> detail]]

Event(op, arg) == [op |-> op, arg |-> arg]

\* p.chromium.launch(...) inside with sync_playwright() as p.
Launch ==
  /\ pc = "o_launch"
  /\ \E ok \in BOOLEAN :
       IF ok THEN browser' = "open" /\ pc' = "o_context" /\ ret' = ret
       ELSE browser' = browser /\ pc' = "o_exit" /\ ret' = Raised("launch")
  /\ UNCHANGED <<xvars, platforms, call_args, page, sel, title, detected_region,
                 results, todo, exc, log, warned, dvars>>

SetupNext(p) ==
  CASE p = "o_context" -> "o_page"
    [] p = "o_page" -> "o_stealth"
    [] p = "o_stealth" -> "o_goto"

\* browser.new_context(...), context.new_page(), stealth.apply_stealth_sync(page):
\* the calls before the try block; what they raise leaves the function.
SetupCall ==
  /\ pc \in {"o_context", "o_page", "o_stealth"}
  /\ \E ok \in BOOLEAN :
       IF ok THEN pc' = SetupNext(pc) /\ ret' = ret
       ELSE pc' = "o_exit" /\ ret' = Raised(pc)
  /\ UNCHANGED <<xvars, platforms, call_args, browser, page, sel, title,
                 detected_region, results, todo, exc, log, warned, dvars>>

\* page.goto(url, wait_until='domcontentloaded', timeout=30000)
Goto ==
  /\ pc = "o_goto"
  /\ log' = Append(log, Event("goto", ""))
  /\ \/ \E p \in LoadedPages :
          /\ page' = p
          /\ pc' = "o_wait_h1"
          /\ exc' = exc
     \/ /\ page' = page
        /\ pc' = "o_except"
        /\ exc' = "goto"
  /\ UNCHANGED <<xvars, platforms, call_args, browser, sel, title, detected_region,
                 results, todo, ret, warned, dvars>>

\* page.wait_for_selector('h1', timeout=15000)
WaitH1 ==
  /\ pc = "o_wait_h1"
  /\ \E ok \in BOOLEAN :
       IF ok /\ page.h1 # "" THEN pc' = "o_settle" /\ exc' = exc
       ELSE pc' = "o_except" /\ exc' = "wait_for_selector"
  /\ UNCHANGED <<xvars, platforms, call_args, browser, page, sel, title,
                 detected_region, results, todo, ret, log, warned, dvars>>

PlainNext(p) ==
  CASE p = "o_settle" ->
         IF callee = "scrape_all_regions" THEN "o_page_title" ELSE "o_scroll"
    [] p = "o_scroll" -> "o_scroll_wait"
    [] p = "o_scroll_wait" ->
         IF callee = "scrape_all_regions" THEN "o_title" ELSE "o_region"

\* page.wait_for_timeout(1500); the scroll script; page.wait_for_timeout(500).
PlainCall ==
  /\ pc \in {"o_settle", "o_scroll", "o_scroll_wait"}
  /\ \E ok \in BOOLEAN :
       IF ok THEN pc' = PlainNext(pc) /\ exc' = exc
       ELSE pc' = "o_except" /\ exc' = pc
  /\ UNCHANGED <<xvars, platforms, call_args, browser, page, sel, title,
                 detected_region, results, todo, ret, log, warned, dvars>>

\* 'just a moment' in page_title.lower() or page_title.strip() == ''
IsChallengeTitle(t) == t \in {"Just a moment...", ""}

\* scrape_all_regions: page_title = page.title() and the challenge warning.
PageTitle ==
  /\ pc = "o_page_title"
  /\ \E ok \in BOOLEAN :
       IF ok THEN /\ warned' = IsChallengeTitle(page.doc_title)
                  /\ pc' = "o_scroll"
                  /\ exc' = exc
       ELSE warned' = warned /\ pc' = "o_except" /\ exc' = "title"
  /\ UNCHANGED <<xvars, platforms, call_args, browser, page, sel, title,
                 detected_region, results, todo, ret, log, dvars>>

\* scrape_reelgood: if region and region in REGIONS: select_region(...)
MaybeSelect ==
  /\ pc = "o_region"
  /\ IF region # "None" /\ region \in RegionKeys
     THEN /\ sel' = SelectCall(REGIONS[region], page)
          /\ log' = Append(log, Event("select", region))
          /\ pc' = "s_current"
     ELSE /\ sel' = sel
          /\ log' = log
          /\ pc' = "o_detect"
  /\ UNCHANGED <<xvars, platforms, call_args, browser, page, title, detected_region,
                 results, todo, ret, exc, warned, dvars>>

\* scrape_reelgood: detected_region = get_current_region(page)
Detect ==
  /\ pc = "o_detect"
  /\ \E raises \in BOOLEAN : detected_region' = get_current_region(page, raises)
  /\ sel' = NoSel
  /\ pc' = "o_title"
  /\ UNCHANGED <<xvars, platforms, call_args, browser, page, title, results,
                 todo, ret, exc, log, warned, dvars>>

\* title = "Unknown Title"; try: the h1's text; except: pass.
ReadTitle ==
  /\ pc = "o_title"
  /\ \E raises \in BOOLEAN :
       title' = IF raises \/ page.h1 = "" THEN "Unknown Title" ELSE page.h1
  /\ log' = Append(log, Event("title", ""))
  /\ IF callee = "scrape_all_regions"
     THEN todo' = RegionsToScrape /\ pc' = "o_loop"
     ELSE todo' = todo /\ pc' = "o_extract"
  /\ UNCHANGED <<xvars, platforms, call_args, browser, page, sel, detected_region,
                 results, ret, exc, warned, dvars>>

\* Mutant: the loop over the region codes in no fixed order.
LoopNextUnordered ==
  /\ pc = "o_loop"
  /\ IF todo = << >>
     THEN sel' = NoSel /\ log' = log /\ todo' = todo /\ pc' = "o_close"
     ELSE \E i \in 1..Len(todo) :
            /\ sel' = SelectCall(REGIONS[todo[i]], page)
            /\ log' = Append(log, Event("select", todo[i]))
            /\ todo' = <<todo[i]>> \o SelectSeq(todo, LAMBDA k : k # todo[i])
            /\ pc' = "s_current"
  /\ UNCHANGED <<xvars, platforms, call_args, browser, page, title, detected_region,
                 results, ret, exc, warned, dvars>>

\* scrape_all_regions: for region_code, region_name in regions_to_scrape.items():
\* select_region(page, region_name), or the loop is over.
LoopNext ==
  /\ pc = "o_loop"
  /\ IF todo = << >>
     THEN sel' = NoSel /\ log' = log /\ pc' = "o_close"
     ELSE /\ sel' = SelectCall(REGIONS[Head(todo)], page)
          /\ log' = Append(log, Event("select", Head(todo)))
          /\ pc' = "s_current"
  /\ UNCHANGED <<xvars, platforms, call_args, browser, page, title, detected_region,
                 results, todo, ret, exc, warned, dvars>>

RegionResult(name, found) ==
  [region |-> name, platforms |-> found,
   platform_count |-> Len(found.subscription) + Len(found.free)]

\* platforms = extract_platforms(page); in scrape_all_regions also
\* results[region_code] = {...}.
Extract ==
  /\ pc = "o_extract"
  /\ \E ok \in BOOLEAN :
       IF ~ok
       THEN /\ pc' = "o_except" /\ exc' = "extract"
            /\ sel' = NoSel
            /\ UNCHANGED <<platforms, results, todo, log>>
       ELSE LET found == extract_platforms(page.logos) IN
            /\ platforms' = found
            /\ sel' = sel
            /\ exc' = exc
            /\ IF callee = "scrape_all_regions"
               THEN /\ results' =
                         [k \in DOMAIN results \cup {Head(todo)} |->
                            IF k = Head(todo) THEN RegionResult(REGIONS[k], found)
                            ELSE results[k]]
                    /\ log' = Append(log, Event("extract", Head(todo)))
                    /\ todo' = Tail(todo)
                    /\ pc' = "o_loop"
               ELSE /\ results' = results
                    /\ log' = Append(log, Event("extract", region))
                    /\ todo' = todo
                    /\ pc' = "o_close"
  /\ UNCHANGED <<xvars, call_args, browser, page, title, detected_region, ret,
                 warned, dvars>>

\* The dict the orchestrator returns.
ScrapeResult ==
  IF callee = "scrape_all_regions"
  THEN [kind |-> "result", title |-> title, url |-> url, regions |-> results]
  ELSE [kind |-> "result", title |-> title, platforms |-> platforms,
        region |-> detected_region, url |-> url,
        platform_count |-> Len(platforms.subscription) + Len(platforms.free)]

\* browser.close() at the end of the try block, then return {...}. A close that
\* raises may or may not have ended the browser.
Close ==
  /\ pc = "o_close"
  /\ \/ /\ browser' = "closed"
        /\ ret' = ScrapeResult
        /\ exc' = exc
        /\ pc' = "o_exit"
     \/ /\ browser' \in {"open", "closed"}
        /\ ret' = ret
        /\ exc' = "close"
        /\ pc' = "o_except"
  /\ UNCHANGED <<xvars, platforms, call_args, page, sel, title, detected_region,
                 results, todo, log, warned, dvars>>

\* except Exception as e: browser.close(); return {"error": ...}. What this
\* browser.close() raises leaves the function.
Except ==
  /\ pc = "o_except"
  /\ \/ /\ browser' = "closed"
        /\ ret' = ErrorResult(exc)
     \/ /\ browser' = browser
        /\ ret' = Raised("close")
  /\ pc' = "o_exit"
  /\ UNCHANGED <<xvars, platforms, call_args, page, sel, title, detected_region,
                 results, todo, exc, log, warned, dvars>>

\* Mutant: Playwright started without the with block, never stopped.
PlaywrightExitLeak ==
  /\ pc = "o_exit"
  /\ pc' = "o_end"
  /\ UNCHANGED <<xvars, platforms, call_args, browser, page, sel, title,
                 detected_region, results, todo, ret, exc, log, warned, dvars>>

\* Leaving "with sync_playwright() as p": Playwright is stopped, which ends its
\* driver and every browser the driver launched.
PlaywrightExit ==
  /\ pc = "o_exit"
  /\ browser' = IF browser = "open" THEN "closed" ELSE browser
  /\ pc' = "o_end"
  /\ UNCHANGED <<xvars, platforms, call_args, page, sel, title, detected_region,
                 results, todo, ret, exc, log, warned, dvars>>

\* The steps both orchestrators run.
ScrapeCommon ==
  \/ Launch
  \/ SetupCall
  \/ Goto
  \/ WaitH1
  \/ PlainCall
  \/ ReadTitle
  \/ SelectRegion
  \/ Extract
  \/ Close
  \/ Except
  \/ PlaywrightExit

\* ------------------------------------------- the CLI of reelgood_scraper.py
\* Length of the argument list after the script name.
MaxArgs == 4

\* Command-line words: a URL, the flags, region values ("NZ" lower-cases to a
\* key of REGIONS, "xx" to none).
Tokens == {"u", "--region", "us", "NZ", "xx", "--help", "-h", "--all-regions", "--all"}
ArgvSet == UNION { [1..n -> Tokens] : n \in 0..MaxArgs }

\* str.lower() on the command-line words.
Lower(t) == IF t = "NZ" THEN "nz" ELSE t

Has(args, t) == \E i \in 1..Len(args) : args[i] = t
\* sys.argv.index(t): the first position of t.
Index(args, t) == CHOOSE i \in 1..Len(args) : args[i] = t /\ \A j \in 1..(i - 1) : args[j] # t

\* Mutant: the last --region of the list is the one read.
ParsedRegionLast(args) ==
  LET at == { i \in 1..Len(args) : args[i] = "--region" } IN
  IF at # {} /\ (CHOOSE i \in at : \A j \in at : j <= i) < Len(args)
  THEN Lower(args[(CHOOSE i \in at : \A j \in at : j <= i) + 1])
  ELSE "None"

\* The region local after the argument parsing ("None" when not set).
ParsedRegion(args) ==
  IF Has(args, "--region") /\ Index(args, "--region") < Len(args)
  THEN Lower(args[Index(args, "--region") + 1])
  ELSE "None"

\* What the claims ask about an argument list: help requested, some --region
\* followed by a word that is no key of REGIONS, the first --region so followed.
BadAt(args, i) ==
  /\ args[i] = "--region"
  /\ i < Len(args)
  /\ Lower(args[i + 1]) \notin RegionKeys
ArgvFacts(args) ==
  [help |-> Has(args, "--help") \/ Has(args, "-h"),
   bad_any |-> \E i \in 1..Len(args) : BadAt(args, i),
   bad_first |-> Has(args, "--region") /\ BadAt(args, Index(args, "--region"))]

run_rest == <<xvars, platforms, browser, page, sel, title, detected_region, results,
              todo, ret, exc, log, warned, request, response>>

\* The __main__ block up to the orchestrator call: help, the argument parsing,
\* sys.exit(1) on an unknown region, then scrape_all_regions(test_url) or
\* scrape_reelgood(test_url, region=region).
CliMain ==
  /\ pc = "m_start"
  /\ \E args \in ArgvSet :
       /\ argv_facts' = ArgvFacts(args)
       /\ IF Len(args) < 1 \/ Has(args, "--help") \/ Has(args, "-h")
          THEN /\ exit_code' = 0
               /\ pc' = "m_exited"
               /\ UNCHANGED call_args
          ELSE IF ParsedRegion(args) # "None" /\ ParsedRegion(args) \notin RegionKeys
          THEN /\ exit_code' = 1
               /\ pc' = "m_exited"
               /\ UNCHANGED call_args
          ELSE /\ exit_code' = exit_code
               /\ pc' = "o_launch"
               /\ url' = <<args[1]>>
               /\ IF Has(args, "--all-regions") \/ Has(args, "--all")
                  THEN callee' = "scrape_all_regions" /\ region' = "None"
                  ELSE callee' = "scrape_reelgood" /\ region' = ParsedRegion(args)
  /\ UNCHANGED run_rest

\* The orchestrator is back: the summary or JSON is printed and the process
\* ends, with a traceback and code 1 when the call raised.
CliFinish ==
  /\ pc = "o_end"
  /\ exit_code' = IF ret.kind = "raised" THEN 1 ELSE 0
  /\ pc' = "m_exited"
  /\ UNCHANGED <<call_args, argv_facts, run_rest>>

Init ==
  /\ pc = "m_start"
  /\ InitLocals

Next ==
  \/ CliMain
  \/ ScrapeCommon
  \/ MaybeSelect
  \/ Detect
  \/ PageTitle
  \/ LoopNext
  \/ CliFinish

Spec == Init /\ [][Next]_vars

\* ----------------------------------------------------- POST /scrape (app.py)
\* Length of the url string of a request.
MaxUrlLen == 2

\* A url string as a sequence of pieces: a blank, the text "reelgood.com", or
\* any other text.
Pieces == {" ", "reelgood.com", "x"}
UrlStrings == UNION { [1..n -> Pieces] : n \in 0..MaxUrlLen }

\* request.get_json(): a JSON object with the url field absent, null or a
\* string, or a JSON array.
Bodies ==
  { [kind |-> "array"] }
  \cup { [kind |-> "object", url |-> v] :
           v \in { [t |-> "absent"], [t |-> "null"] }
                 \cup { [t |-> "str", s |-> x] : x \in UrlStrings } }

\* str.strip()
RECURSIVE StripLeft(_)
StripLeft(x) == IF x # << >> /\ Head(x) = " " THEN StripLeft(Tail(x)) ELSE x
RECURSIVE StripRight(_)
StripRight(x) ==
  IF x # << >> /\ x[Len(x)] = " " THEN StripRight(SubSeq(x, 1, Len(x) - 1)) ELSE x
Strip(x) == StripRight(StripLeft(x))

\* 'reelgood.com' in url
HasDomain(x) == \E i \in 1..Len(x) : x[i] = "reelgood.com"

ErrorResponse(status, message) == [status |-> status, error |-> message]

\* scrape(): request.get_json(), data.get('url', '').strip(), the two checks,
\* then the call of scrape_all_regions(url). A body that is no dict, or a url
\* that is no string, raises AttributeError before the try block: the server
\* answers 500.
HttpScrape ==
  /\ pc = "h_idle"
  /\ \E body \in Bodies :
       /\ request' = body
       /\ IF body.kind # "object" \/ body.url.t = "null"
          THEN /\ response' = ErrorResponse(500, "Internal Server Error")
               /\ pc' = "h_done"
               /\ UNCHANGED call_args
          ELSE LET u == Strip(IF body.url.t = "absent" THEN << >> ELSE body.url.s) IN
               IF u = << >>
               THEN /\ response' = ErrorResponse(400, "Please enter a URL")
                    /\ pc' = "h_done"
                    /\ UNCHANGED call_args
               ELSE IF ~HasDomain(u)
               THEN /\ response' = ErrorResponse(400, "Please enter a valid Reelgood URL")
                    /\ pc' = "h_done"
                    /\ UNCHANGED call_args
               ELSE /\ response' = response
                    /\ callee' = "scrape_all_regions"
                    /\ url' = u
                    /\ region' = "None"
                    /\ pc' = "o_launch"
  /\ UNCHANGED <<xvars, platforms, browser, page, sel, title, detected_region, results,
                 todo, ret, exc, log, warned, argv_facts, exit_code>>

\* The regions list of the 200 response, in the dict's order.
RegionList(regions) ==
  LET codes == SelectSeq(RegionOrder, LAMBDA k : k \in DOMAIN regions) IN
  [i \in 1..Len(codes) |->
     [code |-> codes[i], name |-> regions[codes[i]].region,
      subscription |-> regions[codes[i]].platforms.subscription,
      free |-> regions[codes[i]].platforms.free,
      platform_count |-> regions[codes[i]].platform_count]]

\* scrape() after the call: 500 with the error of an ErrorResult, 200 with the
\* formatted regions, 500 'Scraping failed' when the call raised.
HttpRespond ==
  /\ pc = "o_end"
  /\ response' =
       CASE ret.kind = "raised" -> ErrorResponse(500, <<"Scraping failed: ", ret.detail>>)
         [] ret.kind = "error" -> ErrorResponse(500, ret.error)
         [] ret.kind = "result" ->
              [status |-> 200, title |-> ret.title, url |-> ret.url,
               regions |-> RegionList(ret.regions)]
  /\ pc' = "h_done"
  /\ UNCHANGED <<xvars, platforms, call_args, browser, page, sel, title,
                 detected_region, results, todo, ret, exc, log, warned, argv_facts,
                 exit_code, request>>

InitHttp ==
  /\ pc = "h_idle"
  /\ InitLocals

NextHttp ==
  \/ HttpScrape
  \/ ScrapeCommon
  \/ PageTitle
  \/ LoopNext
  \/ HttpRespond

SpecHttp == InitHttp /\ [][NextHttp]_vars

\* ------------------------------------------------------------------ claims
ListNames(l) == { l[i] : i \in 1..Len(l) }

\* C5: the subscription and free lists returned by one extract_platforms call
\* are disjoint: no platform name is in both.
C5_ListsDisjoint ==
  pc = "x_done" => ListNames(platforms.subscription) \cap ListNames(platforms.free) = {}

StrictlyAscending(l) == \A i, j \in 1..Len(l) : i < j => Rank(l[i]) < Rank(l[j])

\* C6: each of the two returned lists is in ascending lexicographic order and
\* holds no platform name twice, however many images carry the same name.
C6_SortedNoDuplicates ==
  pc = "x_done" =>
    /\ StrictlyAscending(platforms.subscription)
    /\ StrictlyAscending(platforms.free)

\* Two images carry the same name in the same category and the list holds it once.
C6_Witness ==
  /\ pc = "x_done"
  /\ Len(platforms_data) = 2
  /\ platforms_data[1] = platforms_data[2]
  /\ platforms_data[1].category = "Free"
  /\ platforms.free = <<platforms_data[1].platform>>

\* The category an ancestor yields by itself: its first child's label, or
\* failing that the first of free, sub, rent, buy its class string contains.
KeyOrder == <<"free", "sub", "rent", "buy">>
KeyLabel == <<"Free", "Sub", "Rent", "Buy">>
LevelYield(a) ==
  IF a.first \in Labels THEN a.first
  ELSE IF \E k \in 1..4 : KeyOrder[k] \in a.cls
       THEN KeyLabel[CHOOSE k \in 1..4 :
                       /\ KeyOrder[k] \in a.cls
                       /\ \A m \in 1..(k - 1) : KeyOrder[m] \notin a.cls]
       ELSE ""

Least(S) == CHOOSE x \in S : \A y \in S : x <= y

\* The category the claim assigns to an image: that of the nearest yielding
\* ancestor among levels 1..15, else the nearest labelled previous sibling
\* among levels 1..5, else none.
ClaimedCategory(logo) ==
  LET up == { l \in 1..15 : l <= Len(logo.anc) /\ LevelYield(logo.anc[l]) # "" }
      sib == { l \in 1..5 : l <= Len(logo.anc) /\ logo.anc[l].prev \in Labels }
  IN IF up # {} THEN LevelYield(logo.anc[Least(up)])
     ELSE IF sib # {} THEN logo.anc[Least(sib)].prev
     ELSE "Unknown"

\* C10: every named logo image gets the category of its nearest yielding
\* ancestor (first-child label before class keyword, levels 1..15), the
\* previous-sibling fallback applies only when no ancestor yields one, and the
\* name goes to subscription iff the category is Sub, to free iff it is Free
\* and to neither list otherwise; one Netflix logo under a "Sub" first child
\* gives subscription = [Netflix], free = [].
C10_CategoryAssignment ==
  /\ pc = "x_push" => category = ClaimedCategory(img)
  /\ pc = "x_done" =>
       /\ \A n \in Alts :
            /\ n \in ListNames(platforms.subscription)
                 <=> \E i \in 1..Len(platforms_data) :
                       platforms_data[i] = [platform |-> n, category |-> "Sub"]
            /\ n \in ListNames(platforms.free)
                 <=> \E i \in 1..Len(platforms_data) :
                       platforms_data[i] = [platform |-> n, category |-> "Free"]
       /\ platforms_data = <<[platform |-> "Netflix", category |-> "Sub"]>>
            => platforms = [subscription |-> <<"Netflix">>, free |-> << >>]

\* A Netflix logo whose nearest labelled ancestor, above a plain parent, has
\* the first child text "Sub" has been classified as Sub.
C10_Witness ==
  /\ pc = "x_push"
  /\ img.alt = "Netflix"
  /\ Len(img.anc) >= 5
  /\ img.anc[1] = Plain
  /\ img.anc[5].first = "Sub"
  /\ category = "Sub"

\* C1: on every exit path of scrape_reelgood and scrape_all_regions the browser
\* the call launched has been closed when the call exits.
C1_BrowserClosedOnExit ==
  pc \in {"o_end", "m_exited", "h_done"} => browser # "open"

\* new_context raised before the try block: browser.close() was never called,
\* the exception left the function, and the browser is closed all the same.
C1_Witness ==
  /\ pc = "o_end"
  /\ ret = Raised("o_context")
  /\ browser = "closed"

\* C2: every exception raised at any step of an orchestrator is caught and
\* turned into {"error": "Failed to scrape URL: ..."}; the call returns a
\* ScrapeResult or an ErrorResult and never raises to its caller.
C2_NeverRaises ==
  pc = "o_end" =>
    \/ ret.kind = "result"
    \/ ret.kind = "error" /\ ret.error.prefix = "Failed to scrape URL: "

\* C3: when select_region returns r, either r is the target and
\* get_current_region read afterwards is the target, or r is the region
\* detected at the start of the call and the displayed region is unchanged.
C3_SelectReadBack ==
  pc = "s_return" =>
    \/ /\ sel.ret = sel.target
       /\ get_current_region(page, FALSE) = sel.target
    \/ /\ sel.ret = sel.current
       /\ page.span = sel.before.span
       /\ page.line = sel.before.line

\* C4: the region mapping of a scrape_all_regions result has exactly the keys
\* us, uk, ca, au, nz, one RegionResult each, whatever the URL and the page.
C4_RegionKeys ==
  (pc = "o_end" /\ callee = "scrape_all_regions" /\ ret.kind = "result") =>
    /\ DOMAIN ret.regions = {"us", "uk", "ca", "au", "nz"}
    /\ \A k \in DOMAIN ret.regions : ret.regions[k].region = REGIONS[k]

\* An all-regions scrape of a page without region dropdown returned its result.
C4_Witness ==
  /\ pc = "o_end"
  /\ callee = "scrape_all_regions"
  /\ ret.kind = "result"
  /\ ~page.dropdown
  /\ url # <<"u">>

\* The url field of a request is absent, empty or only blanks.
BlankUrl(req) ==
  \/ req.kind # "object"
  \/ req.url.t = "absent"
  \/ req.url.t = "str" /\ \A i \in 1..Len(req.url.s) : req.url.s[i] = " "
\* The url of a request passes both checks.
ValidUrl(req) ==
  /\ req.kind = "object"
  /\ req.url.t = "str"
  /\ \E i \in 1..Len(req.url.s) : req.url.s[i] = "reelgood.com"

\* C7: a POST /scrape body whose url is absent, empty or blank gets 400
\* "Please enter a URL", any other url without "reelgood.com" gets 400 "Please
\* enter a valid Reelgood URL", and scrape_all_regions is invoked only for a
\* url that passes both checks.
C7_Validation ==
  request # NoRequest =>
    /\ BlankUrl(request) =>
         /\ response = ErrorResponse(400, "Please enter a URL")
         /\ callee = "none"
    /\ (~BlankUrl(request) /\ ~ValidUrl(request)) =>
         /\ response = ErrorResponse(400, "Please enter a valid Reelgood URL")
         /\ callee = "none"
    /\ callee # "none" => ValidUrl(request)

\* C8: select_region never raises: a throwing step leads to the handler, which
\* attempts Escape and returns a region string read from the page; and when no
\* option is found Escape is pressed and the region detected at the start of
\* the call is returned.
C8_SelectNeverRaises ==
  /\ sel.via # "raised"
  /\ pc = "o_except" => exc # "select_region"
  /\ (pc = "s_return" /\ sel.via = "exception") =>
       /\ sel.esc
       /\ sel.ret \in {get_current_region(page, FALSE), "Unknown"}
  /\ (pc = "s_return" /\ sel.via = "not_found") =>
       /\ sel.esc
       /\ ~page.menu
       /\ sel.ret = sel.current

\* A step threw after the dropdown opened, the handler's Escape press failed
\* too, and select_region still returned the region it reads from the page.
C8_Witness ==
  /\ pc = "s_return"
  /\ sel.via = "exception"
  /\ sel.esc
  /\ page.menu
  /\ sel.ret = get_current_region(page, FALSE)
  /\ sel.ret # sel.target

\* C9 as stated: whenever some --region is followed by a value that is no key
\* of REGIONS, the process exits with a non-zero code and no scrape starts.
C9_AnyBadRegionExitsNonZero ==
  argv_facts.bad_any =>
    /\ callee = "none"
    /\ pc = "m_exited"
    /\ exit_code # 0

\* C9 amended: whenever the first --region is followed by a value that is no
\* key of REGIONS (after lower-casing), the process exits before any
\* orchestrator is called, with code 1 unless --help or -h is given, and then
\* with code 0.
C9_FirstBadRegionExits ==
  argv_facts.bad_first =>
    /\ callee = "none"
    /\ pc = "m_exited"
    /\ exit_code = IF argv_facts.help THEN 0 ELSE 1

\* An unknown first --region value without a help flag: exit code 1, no scrape.
C9_Witness ==
  /\ argv_facts.bad_first
  /\ ~argv_facts.help
  /\ pc = "m_exited"
  /\ exit_code = 1
  /\ callee = "none"
  /\ browser = "none"

\* C11: in one scrape_all_regions call the operations on the page happen in one
\* fixed order: page.goto once, the h1 title read once, then for us, uk, ca,
\* au, nz in that order select_region followed by extract_platforms; at every
\* moment the operations done so far are a beginning of that sequence ("all"
\* is no part of it), and a call that returns a ScrapeResult has done all of it.
RegionRound(k) == <<Event("select", k), Event("extract", k)>>
AllRegionsTrace ==
  <<Event("goto", ""), Event("title", "")>>
  \o RegionRound("us") \o RegionRound("uk") \o RegionRound("ca")
  \o RegionRound("au") \o RegionRound("nz")
IsPrefix(s, t) == Len(s) <= Len(t) /\ s = SubSeq(t, 1, Len(s))
C11_OneLoadThenRegionsInOrder ==
  callee = "scrape_all_regions" =>
    /\ IsPrefix(log, AllRegionsTrace)
    /\ ret.kind = "result" => log = AllRegionsTrace
C11_Witness ==
  /\ callee = "scrape_all_regions"
  /\ ret.kind = "result"
  /\ log = AllRegionsTrace
  /\ DOMAIN ret.regions = {"us", "uk", "ca", "au", "nz"}

\* C12: in scrape_all_regions, after a select_region call that returned
\* something other than the requested region, the loop goes on, and the
\* RegionResult stored for that region records the state the attempt left the
\* page in: its region is the region the page shows and its platforms are the
\* ones extracted from that page.
C12_FailedSelectRecorded ==
  (/\ callee = "scrape_all_regions"
   /\ pc = "o_loop"
   /\ log # << >>
   /\ log[Len(log)].op = "extract"
   /\ sel.ret # sel.target) =>
    LET k == log[Len(log)].arg IN
    /\ k \in DOMAIN results
    /\ results[k].region = get_current_region(page, FALSE)
    /\ results[k].platforms = extract_platforms(page.logos)

\* C13: in scrape_reelgood and in scrape_all_regions alike, once a page whose
\* title is empty or contains "just a moment" is loaded and the scrape has gone
\* on to read the heading, the challenge warning has been printed; the scrape
\* is not stopped by it.
C13_ChallengeWarned ==
  (/\ callee \in {"scrape_reelgood", "scrape_all_regions"}
   /\ IsChallengeTitle(page.doc_title)
   /\ \E i \in 1..Len(log) : log[i].op = "title") => warned

====
